---- MODULE Spec2Model ----
(***************************************************************************)
(* s2omp::circle_bound (trunk/s2omp/circle_bound.cc): a spherical cap      *)
(* given by an axis and a height, its point and pixel queries, the         *)
(* recursive area integration and the random draws.                        *)
(*                                                                         *)
(* Arithmetic is exact.  A point of the unit sphere is written as an       *)
(* integer vector v and stands for v/|v|; a double that the code derives   *)
(* from the height is written in units of 1/One.  Every comparison the     *)
(* code makes between doubles is made here between the same quantities,    *)
(* cleared of denominators and square roots.                               *)
(***************************************************************************)
EXTENDS Integers, Sequences, FiniteSets

\* ------------------------------------------------------------------ bounds

\* Finest level of the pixel hierarchy; pixels at MaxLevel have no children.
MaxLevel == 2
\* Largest height (in units of 1/One) handed to from_height.
MaxHeight == 9
\* Longest run of random draws that is followed.
MaxDraws == 2

\* The double 1.0, in the fixed unit in which heights are written.
One == 4

\* ------------------------------------------------------------ point (unit)

Dot(a, b) == a[1] * b[1] + a[2] * b[2] + a[3] * b[3]

Cross(a, b) ==
  << a[2] * b[3] - a[3] * b[2],
     a[3] * b[1] - a[1] * b[3],
     a[1] * b[2] - a[2] * b[1] >>

Neg(a) == << 0 - a[1], 0 - a[2], 0 - a[3] >>

Norm2(a) == Dot(a, a)

ZAxis == << 0, 0, 1 >>

\* x >= y * sqrt(n) for integers x, y and n >= 0.
GeSqrt(x, y, n) ==
  IF y >= 0
    THEN x >= 0 /\ x * x >= y * y * n
    ELSE x >= 0 \/ x * x <= y * y * n

\* -------------------------------------------------------------------- pixel

RECURSIVE Pow2(_)
Pow2(n) == IF n = 0 THEN 1 ELSE 2 * Pow2(n - 1)

\* Half the width of a cube face, in grid steps of the finest level.
HalfWidth == Pow2(MaxLevel - 1)

Faces == 0 .. 5

Pixels ==
  UNION { { [face |-> f, level |-> l, i |-> i, j |-> j] :
              f \in Faces, i \in 0 .. Pow2(l) - 1, j \in 0 .. Pow2(l) - 1 } :
          l \in 0 .. MaxLevel }

FaceUVtoXYZ(f, u, v) ==
  CASE f = 0 -> << HalfWidth, u, v >>
    [] f = 1 -> << 0 - u, HalfWidth, v >>
    [] f = 2 -> << 0 - u, 0 - v, HalfWidth >>
    [] f = 3 -> << 0 - HalfWidth, 0 - v, 0 - u >>
    [] f = 4 -> << v, 0 - HalfWidth, 0 - u >>
    [] OTHER -> << v, u, 0 - HalfWidth >>

\* Side of a cell of the given level, in grid steps.
CellSize(l) == Pow2(MaxLevel - l)

ULo(pix) == pix.i * CellSize(pix.level) - HalfWidth
UHi(pix) == (pix.i + 1) * CellSize(pix.level) - HalfWidth
VLo(pix) == pix.j * CellSize(pix.level) - HalfWidth
VHi(pix) == (pix.j + 1) * CellSize(pix.level) - HalfWidth

\* pixel::vertex(k), k in 0..3, counter-clockwise.
Vertex(pix, k) ==
  CASE k = 0 -> FaceUVtoXYZ(pix.face, ULo(pix), VLo(pix))
    [] k = 1 -> FaceUVtoXYZ(pix.face, UHi(pix), VLo(pix))
    [] k = 2 -> FaceUVtoXYZ(pix.face, UHi(pix), VHi(pix))
    [] OTHER -> FaceUVtoXYZ(pix.face, ULo(pix), VHi(pix))

\* pixel::edge(k): the inward normal of the great circle through vertex k and
\* vertex k+1.  It stands for the unit vector Edge/|Edge|.
Edge(pix, k) == Cross(Vertex(pix, k), Vertex(pix, (k + 1) % 4))

\* pixel::contains(point)
PixelContains(pix, p) == \A k \in 0 .. 3 : Dot(Edge(pix, k), p) >= 0

\* pixel::exact_area(), in units of the area of a finest-level pixel.
ExactArea(pix) == CellSize(pix.level) * CellSize(pix.level)

\* child_begin() .. child_end(): the four children, none at MaxLevel.
Children(pix) ==
  IF pix.level >= MaxLevel
    THEN << >>
    ELSE [ n \in 1 .. 4 |->
             [face |-> pix.face, level |-> pix.level + 1,
              i |-> 2 * pix.i + ((n - 1) % 2),
              j |-> 2 * pix.j + ((n - 1) \div 2)] ]

Vertices(pix) == [ n \in 1 .. 4 |-> Vertex(pix, n - 1) ]

\* pixel::vertex(4): the index is outside 0..3, so the read is out of range.
\* It yields vertex 0 (the index wrapped) or a point unrelated to the pixel;
\* which of these a build does is its mode.
Modes == { "wrap", "north", "south" }

OutOfRangeVertex(pix, mode) ==
  CASE mode = "wrap" -> Vertex(pix, 0)
    [] mode = "north" -> ZAxis
    [] OTHER -> Neg(ZAxis)

OutOfRange(pix) == { OutOfRangeVertex(pix, m) : m \in Modes }

\* ------------------------------------------------------------- circle_bound

\* circle_bound::circle_bound()
DefaultHeight == 0 - One

\* circle_bound::circle_bound(axis, height)
Bound(axis, height) == [axis |-> axis, height |-> height]

is_empty(b) == b.height < 0

size(b) == IF is_empty(b) THEN 0 ELSE 1

\* area() without the test for the empty bound.
areaOfAnyHeight(b) == 2 * b.height

\* area(), in units of PI/One.
area(b) == IF ~ is_empty(b) THEN 2 * b.height ELSE 0

\* contains(point): height_ >= 1.0 - axis_.dot(p)
contains(b, p) ==
  GeSqrt(One * Dot(b.axis, p), One - b.height, Norm2(b.axis) * Norm2(p))

from_height(axis, height) == Bound(axis, height)

\* complement() about the same axis.
complementSameAxis(b) ==
  IF is_empty(b)
    THEN from_height(b.axis, 2 * One)
    ELSE from_height(b.axis, 2 * One - b.height)

complement(b) ==
  IF is_empty(b)
    THEN from_height(Neg(b.axis), 2 * One)
    ELSE from_height(Neg(b.axis), 2 * One - b.height)

\* The edge loop with an edge outside the cap skipped rather than ending the
\* call.
RECURSIVE EdgeLoopSkipsOutside(_, _, _, _)
EdgeLoopSkipsOutside(b, pix, vertices, k) ==
  IF k >= 4
    THEN [result |-> FALSE, examined |-> {}]
    ELSE
      LET edge == Edge(pix, k)
          dot == Dot(b.axis, edge)
          outside ==
            dot * dot * One * One
              > b.height * (2 * One - b.height) * Norm2(b.axis) * Norm2(edge)
          dir == Cross(edge, b.axis)
          rest == EdgeLoopSkipsOutside(b, pix, vertices, k + 1)
          continue ==
            [result |-> rest.result, examined |-> {k} \cup rest.examined]
      IN  IF dot > 0 THEN continue
          ELSE IF outside THEN continue
          ELSE IF Dot(dir, vertices[k + 1]) < 0
                    /\ Dot(dir, vertices[((k + 1) % 4) + 1]) > 0
            THEN [result |-> TRUE, examined |-> {k}]
          ELSE continue

\* The edge loop of intersects(), from edge k on: the value returned and the
\* edges the loop looked at.
RECURSIVE EdgeLoop(_, _, _, _)
EdgeLoop(b, pix, vertices, k) ==
  IF k >= 4
    THEN [result |-> FALSE, examined |-> {}]
    ELSE
      LET edge == Edge(pix, k)
          dot == Dot(b.axis, edge)
          \* dot * dot > sin2_angle, with sin2_angle = height_ * (2 - height_)
          outside ==
            dot * dot * One * One
              > b.height * (2 * One - b.height) * Norm2(b.axis) * Norm2(edge)
          dir == Cross(edge, b.axis)
          rest == EdgeLoop(b, pix, vertices, k + 1)
          continue ==
            [result |-> rest.result, examined |-> {k} \cup rest.examined]
      IN  IF dot > 0 THEN continue
          ELSE IF outside THEN [result |-> FALSE, examined |-> {k}]
          ELSE IF Dot(dir, vertices[k + 1]) < 0
                    /\ Dot(dir, vertices[((k + 1) % 4) + 1]) > 0
            THEN [result |-> TRUE, examined |-> {k}]
          ELSE continue

\* intersects() asking the pixel for the axis before testing for emptiness.
IntersectsRunAxisFirst(b, pix, vertices) ==
  IF b.height >= One THEN [result |-> FALSE, examined |-> {}]
  ELSE IF PixelContains(pix, b.axis) THEN [result |-> TRUE, examined |-> {}]
  ELSE IF is_empty(b) THEN [result |-> FALSE, examined |-> {}]
  ELSE EdgeLoop(b, pix, vertices, 0)

\* intersects(pix, vertices), with the edges its loop looked at.
IntersectsRun(b, pix, vertices) ==
  IF b.height >= One THEN [result |-> FALSE, examined |-> {}]
  ELSE IF is_empty(b) THEN [result |-> FALSE, examined |-> {}]
  ELSE IF PixelContains(pix, b.axis) THEN [result |-> TRUE, examined |-> {}]
  ELSE EdgeLoop(b, pix, vertices, 0)

intersects(b, pix, vertices) == IntersectsRun(b, pix, vertices).result

\* may_intersect(pix).  Each of the four passes of its loop pushes
\* pix.vertex(4); oob is the point that call returns.
may_intersect(b, pix, oob) ==
  IF contains(b, oob)
    THEN TRUE
    ELSE intersects(b, pix, << oob, oob, oob, oob >>)

\* contains(pixel); oob as in may_intersect.
contains_pixel(b, pix, oob) ==
  IF \E k \in 0 .. 3 : ~ contains(b, Vertex(pix, k))
    THEN FALSE
    ELSE ~ may_intersect(complement(b), pix, oob)

\* cos(radius_degrees * DEG_TO_RAD), in units of 1/One, for the radii whose
\* cosine is a multiple of one half.
CosDegrees(d) ==
  CASE d = 0 -> One
    [] d = 60 -> One \div 2
    [] d = 90 -> 0
    [] d = 120 -> 0 - (One \div 2)
    [] OTHER -> 0 - One

from_radius(axis, radius_degrees) ==
  Bound(axis, One - CosDegrees(radius_degrees))

\* bin.cos_theta_max() is the cosine handed over, in units of 1/One.
from_angular_bin(axis, cos_theta_max) == Bound(axis, One - cos_theta_max)

\* ------------------------------------------------------------------- inputs

Axes == { << 0, 0, 1 >>, << 1, 0, 0 >>, << 1, 1, 1 >>, << 0 - 1, 2, 2 >> }

\* Heights handed to from_height, in units of 1/One: an empty one, those of
\* [0, 2] and those above 2.
Heights == (0 - 1) .. MaxHeight

Radii == { 0, 60, 90, 120, 180 }

Cosines == (0 - One) .. One

\* Points handed to contains(point): the axes, their antipodes and the
\* vertices of the face pixels.
Points ==
  Axes \cup { Neg(a) : a \in Axes }
       \cup { Vertex([face |-> f, level |-> 0, i |-> 0, j |-> 0], k) :
                f \in Faces, k \in 0 .. 3 }

RootPixels == { pix \in Pixels : pix.level = 0 }

\* Reference point lists handed to the weighted draws, as their weight fields.
ReferenceLists == { << 5 >>, << 5, 7 >>, << 7, 6, 9 >> }

\* --------------------------------------------------------------------- state

VARIABLES
  this,                 \* the bound: axis_ and height_
  initialized_random_,  \* its flag guarding initialize_random()
  rotate_,              \* its cached rotation
  great_circle_norm_,   \* its cached rotation axis
  seeded,               \* how often initialize_random() has run on it
  drawn,                \* how many random points it has produced
  stack,                \* the frames of a contained_area() call in progress
  descents,             \* child pixels entered by that call
  returned              \* the last call that returned, and what it returned

vars ==
  << this, initialized_random_, rotate_, great_circle_norm_, seeded, drawn,
     stack, descents, returned >>

randomVars ==
  << initialized_random_, rotate_, great_circle_norm_, seeded, drawn >>

None == "none"

\* The cache of a bound on which initialize_random() has not run.
Unset == [rotate |-> [num |-> 0, den2 |-> 0], norm |-> << 0, 0, 0 >>]

\* Of a returned call: what it was given, its value and what more is recorded
\* of it.
Ret(pix, given, val, more) ==
  [pix |-> pix, given |-> given, val |-> val, more |-> more]

NoRet == Ret(None, None, None, None)

\* The name of the last call that returned, and the record of it.
call == returned[1]
ret == returned[2]

\* The call named c returns r.
Returned(c, r) == returned' = << c, r >>

\* No call has returned a value the caller has yet to take.
Taken == returned' = << "none", NoRet >>

Idle == stack = << >>

\* The caller is between two calls: no call is in progress and the value of
\* the last one has been taken.
Ready == Idle /\ call = "none"

\* A constructor or factory returns the bound b, which becomes the bound the
\* following calls are made on.  Neither constructor writes initialized_random_, rotate_ or
\* great_circle_norm_: the flag of a new bound holds either value.
Construct(name, given, b) ==
  /\ Returned(name, Ret(None, given, b, None))
  /\ this' = b
  /\ initialized_random_' \in BOOLEAN
  /\ rotate_' = Unset.rotate
  /\ great_circle_norm_' = Unset.norm
  /\ seeded' = 0
  /\ drawn' = 0
  /\ UNCHANGED << stack, descents >>

\* circle_bound(): axis_ is left as the point class builds it.
Default ==
  Ready /\ \E a \in Axes :
    Construct("circle_bound", None, Bound(a, DefaultHeight))

FromHeight ==
  Ready /\ \E a \in Axes, h \in Heights : Construct("from_height", h, from_height(a, h))

FromRadius ==
  Ready /\ \E a \in Axes, d \in Radii : Construct("from_radius", d, from_radius(a, d))

FromAngularBin ==
  Ready /\ \E a \in Axes, c \in Cosines :
    Construct("from_angular_bin", c, from_angular_bin(a, c))

Init ==
  /\ \E a \in Axes : this = Bound(a, DefaultHeight)
  /\ initialized_random_ \in BOOLEAN
  /\ rotate_ = Unset.rotate
  /\ great_circle_norm_ = Unset.norm
  /\ seeded = 0
  /\ drawn = 0
  /\ stack = << >>
  /\ descents = 0
  /\ returned = << "none", NoRet >>

\* ------------------------------------------------------------------- queries

Returns(c, r) ==
  /\ Returned(c, r)
  /\ UNCHANGED << this, randomVars, stack, descents >>

IsEmpty == Ready /\ Returns("is_empty", Ret(None, None, is_empty(this), None))

Size == Ready /\ Returns("size", Ret(None, None, size(this), None))

Area == Ready /\ Returns("area", Ret(None, None, area(this), None))

ContainsPoint ==
  Ready /\ \E p \in Points :
    Returns("contains", Ret(None, p, contains(this, p), None))

ContainsPixel ==
  Ready /\ \E pix \in Pixels : \E oob \in OutOfRange(pix) :
    Returns("contains_pixel",
            Ret(pix, oob, contains_pixel(this, pix, oob), None))

MayIntersect ==
  Ready /\ \E pix \in Pixels : \E oob \in OutOfRange(pix) :
    Returns("may_intersect",
            Ret(pix, oob, may_intersect(this, pix, oob), None))

\* intersects(pix, vertices), handed the pixel's four vertices.
Intersects ==
  Ready /\ \E pix \in Pixels :
    LET vertices == Vertices(pix)
        run == IntersectsRun(this, pix, vertices)
    IN  Returns("intersects", Ret(pix, vertices, run.result, run.examined))

Complement ==
  Ready /\ Returns("complement", Ret(None, None, complement(this), None))

\* ------------------------------------------------------------ contained_area

Frame(pix, mode) ==
  [pix |-> pix, phase |-> "entry", mode |-> mode, next |-> 1, area |-> 0]

Top == stack[Len(stack)]

SetTop(f) == [stack EXCEPT ![Len(stack)] = f]

\* The caller invokes contained_area(pix).
CallContainedArea ==
  Ready /\ \E pix \in RootPixels, mode \in Modes :
    /\ Taken
    /\ stack' = << Frame(pix, mode) >>
    /\ descents' = 0
    /\ UNCHANGED << this, randomVars >>

\* The head of contained_area(pix): contains(pix), else may_intersect(pix).
\* Both read pix.vertex(4) of the same pixel.
Classify(f) ==
  LET oob == OutOfRangeVertex(f.pix, f.mode)
  IN  IF contains_pixel(this, f.pix, oob)
        THEN [f EXCEPT !.phase = "done", !.area = ExactArea(f.pix)]
      ELSE IF may_intersect(this, f.pix, oob)
        THEN [f EXCEPT !.phase = "loop"]
      ELSE [f EXCEPT !.phase = "done"]

EnterPixel ==
  /\ ~ Idle
  /\ Top.phase = "entry"
  /\ stack' = SetTop(Classify(Top))
  /\ UNCHANGED << this, randomVars, descents, returned >>

\* One pass of the loop over the children: the recursive call is made.
DescendChild ==
  /\ ~ Idle
  /\ Top.phase = "loop"
  /\ Top.next <= Len(Children(Top.pix))
  /\ stack' = Append(stack, Frame(Children(Top.pix)[Top.next], Top.mode))
  /\ descents' = descents + 1
  /\ UNCHANGED << this, randomVars, returned >>

\* area = contained_area(*iter): the sum is overwritten.
AccumulateOverwrites(parent, value) ==
  [parent EXCEPT !.area = value, !.next = parent.next + 1]

\* area += contained_area(*iter), in the caller's frame.
Accumulate(parent, value) ==
  [parent EXCEPT !.area = parent.area + value, !.next = parent.next + 1]

\* return area (or pix.exact_area())
ReturnArea ==
  /\ ~ Idle
  /\ \/ Top.phase = "done"
     \/ Top.phase = "loop" /\ Top.next > Len(Children(Top.pix))
  /\ IF Len(stack) = 1
       THEN /\ Returned("contained_area",
                        Ret(Top.pix, Top.mode, Top.area, descents))
            /\ stack' = << >>
            /\ descents' = 0
       ELSE /\ stack' =
                 [SubSeq(stack, 1, Len(stack) - 1)
                    EXCEPT ![Len(stack) - 1] = Accumulate(@, Top.area)]
            /\ UNCHANGED << returned, descents >>
  /\ UNCHANGED << this, randomVars >>

\* ------------------------------------------------------------- random draws

\* mtrand.rand(n): a real of [0, n]; the two ends stand for the interval.
RandReal(n) == { 0, n }

\* mtrand.rand(2.0*PI), in quarter turns.
RandPhi == { 0, 1 }

\* mtrand.randInt(n): an integer of [0, n], n included.
RandInt(n) == 0 .. n

\* Weight of a point built by point(x, y, z).
DefaultWeight == 1

\* Weights an out-of-range read of the reference points may yield.
StrayWeights == { 0, 3 }

\* The cache written by initialize_random(): rotate_ is axis_.dot(z), a
\* cosine num/sqrt(den2); great_circle_norm_ is z.cross(axis_).
initialize_random(b) ==
  [rotate |-> [num |-> Dot(b.axis, ZAxis), den2 |-> Norm2(b.axis)],
   norm |-> Cross(ZAxis, b.axis)]

\* The instance's random state, as one value.
RandomState ==
  [flag |-> initialized_random_, rotate |-> rotate_,
   norm |-> great_circle_norm_, seeded |-> seeded, drawn |-> drawn]

\* get_random_point() from random state rs, for the values r and phi the
\* generator hands out: the new random state and the point returned.  The
\* point is (sin(acos z) cos phi, sin(acos z) sin phi, z) rotated about
\* great_circle_norm_ by rotate_; sin2 is the square of sin(acos z).
get_random_point(b, rs, r, phi) ==
  LET cache == initialize_random(b)
      rs1 == IF ~ rs.flag
               THEN [rs EXCEPT !.rotate = cache.rotate, !.norm = cache.norm,
                               !.seeded = rs.seeded + 1]
               ELSE rs
      z == r + One - b.height
  IN  [rs |-> [rs1 EXCEPT !.drawn = rs1.drawn + 1],
       p |-> [z |-> z, sin2 |-> One * One - z * z, phi |-> phi,
              about |-> rs1.norm, angle |-> rs1.rotate,
              weight |-> DefaultWeight]]

\* p.set_weight(points[mtrand.randInt(points.size())].weight())
LookedUpWeight(p, reference, d) ==
  [p EXCEPT !.weight =
     IF d.idx < Len(reference) THEN reference[d.idx + 1] ELSE d.stray]

\* p.set_weight(mtrand.randInt(input_points.size()))
IndexWeight(p, reference, d) == [p EXCEPT !.weight = d.idx]

\* The loop of get_random_points() (weighted = FALSE) and of
\* get_weighted_random_points() (weighted = TRUE): one draw per element of
\* draws, pushed onto out.
RECURSIVE DrawLoop(_, _, _, _, _, _)
DrawLoop(b, rs, draws, out, weighted, reference) ==
  IF draws = << >>
    THEN [rs |-> rs, points |-> out]
    ELSE LET d == Head(draws)
             one == get_random_point(b, rs, d.r, d.phi)
             p == IF weighted THEN IndexWeight(one.p, reference, d) ELSE one.p
         IN  DrawLoop(b, one.rs, Tail(draws), Append(out, p), weighted,
                      reference)

Draws(b) ==
  [r : RandReal(b.height), phi : RandPhi, idx : { 0 }, stray : { 0 }]

WeightedDraws(b, reference) ==
  { d \in [r : RandReal(b.height), phi : RandPhi,
            idx : RandInt(Len(reference)), stray : StrayWeights \cup { 0 }] :
      d.idx < Len(reference) => d.stray = 0 }

\* What the caller's destination vector holds when it is handed over.
StalePoint ==
  [z |-> One, sin2 |-> 0, phi |-> 0, about |-> Unset.norm,
   angle |-> Unset.rotate, weight |-> DefaultWeight]

Destinations == { << >>, << StalePoint >> }

\* if (!points->empty()) points->clear();
Cleared(points) == IF points # << >> THEN << >> ELSE points

SetRandom(rs) ==
  /\ initialized_random_' = rs.flag
  /\ rotate_' = rs.rotate
  /\ great_circle_norm_' = rs.norm
  /\ seeded' = rs.seeded
  /\ drawn' = rs.drawn

GetRandomPoint ==
  /\ Ready
  /\ drawn < MaxDraws
  /\ \E d \in Draws(this) :
       LET one == get_random_point(this, RandomState, d.r, d.phi)
       IN  /\ Returned("get_random_point", Ret(None, None, one.p, None))
           /\ SetRandom(one.rs)
  /\ UNCHANGED << this, stack, descents >>

GetRandomPoints ==
  /\ Ready
  /\ \E n_points \in 0 .. MaxDraws - drawn, points \in Destinations :
       \E draws \in [1 .. n_points -> Draws(this)] :
         LET run == DrawLoop(this, RandomState, draws, Cleared(points),
                             FALSE, << >>)
         IN  /\ Returned("get_random_points",
                      Ret(None, n_points, run.points, None))
             /\ SetRandom(run.rs)
  /\ UNCHANGED << this, stack, descents >>

GetWeightedRandomPoint ==
  /\ Ready
  /\ drawn < MaxDraws
  /\ \E reference \in ReferenceLists :
       \E d \in WeightedDraws(this, reference) :
         LET one == get_random_point(this, RandomState, d.r, d.phi)
             p == LookedUpWeight(one.p, reference, d)
         IN  /\ Returned("get_weighted_random_point",
                      Ret(None, reference, p, None))
             /\ SetRandom(one.rs)
  /\ UNCHANGED << this, stack, descents >>

GetWeightedRandomPoints ==
  /\ Ready
  /\ \E reference \in ReferenceLists :
       \E n_points \in 0 .. MaxDraws - drawn, points \in Destinations :
         \E draws \in [1 .. n_points -> WeightedDraws(this, reference)] :
           LET run == DrawLoop(this, RandomState, draws, Cleared(points),
                               TRUE, reference)
           IN  /\ Returned("get_weighted_random_points",
                        Ret(None, reference, run.points, n_points))
               /\ SetRandom(run.rs)
  /\ UNCHANGED << this, stack, descents >>

\* The caller takes the returned value and goes on to its next call.
Continue ==
  /\ Idle
  /\ call # "none"
  /\ Taken
  /\ UNCHANGED << this, randomVars, stack, descents >>

\* ------------------------------------------------------------ specification

Next ==
  \/ Default
  \/ FromHeight
  \/ FromRadius
  \/ FromAngularBin
  \/ IsEmpty
  \/ Size
  \/ Area
  \/ ContainsPoint
  \/ ContainsPixel
  \/ MayIntersect
  \/ Intersects
  \/ Complement
  \/ CallContainedArea
  \/ EnterPixel
  \/ DescendChild
  \/ ReturnArea
  \/ Continue

Spec == Init /\ [][Next]_vars

\* The bound under random draws.
NextRandom ==
  \/ Default
  \/ FromHeight
  \/ FromRadius
  \/ FromAngularBin
  \/ GetRandomPoint
  \/ GetRandomPoints
  \/ GetWeightedRandomPoint
  \/ GetWeightedRandomPoints
  \/ Continue

SpecRandom == Init /\ [][NextRandom]_vars

\* ==================================================================== claims

\* ------------------------------------------------------------------------ C1

AnyVertexContained(b, pix) == \E k \in 0 .. 3 : contains(b, Vertex(pix, k))

\* C1: on a non-empty bound may_intersect(pixel) is true whenever one of the
\* pixel's vertices 0..3 is contained, and equals
\* intersects(pixel, <vertex 0..3>) when none is.
C1_MayIntersectTestsTheFourVertices ==
  (call = "may_intersect" /\ ~ is_empty(this)) =>
    ret.val = IF AnyVertexContained(this, ret.pix)
                THEN TRUE
                ELSE intersects(this, ret.pix, Vertices(ret.pix))

\* ------------------------------------------------------------------------ C2

\* axis.edge(k) <= 0 and its square exceeds height (2 - height).
EdgeOutside(b, pix, k) ==
  LET edge == Edge(pix, k)
      dot == Dot(b.axis, edge)
  IN  /\ dot <= 0
      /\ dot * dot * One * One
           > b.height * (2 * One - b.height) * Norm2(b.axis) * Norm2(edge)

\* Edge k confirms a crossing.
EdgeConfirms(b, pix, vertices, k) ==
  LET edge == Edge(pix, k)
      dot == Dot(b.axis, edge)
      dir == Cross(edge, b.axis)
  IN  /\ dot <= 0
      /\ dot * dot * One * One
           <= b.height * (2 * One - b.height) * Norm2(b.axis) * Norm2(edge)
      /\ Dot(dir, vertices[k + 1]) < 0
      /\ Dot(dir, vertices[((k + 1) % 4) + 1]) > 0

\* intersects() has reached its edge loop.
InEdgeLoop ==
  /\ call = "intersects"
  /\ ~ is_empty(this)
  /\ this.height < One
  /\ ~ PixelContains(ret.pix, this.axis)

\* C2 as stated: an edge outside the cap contributes nothing and the edges
\* after it are still examined; the call returns true iff some edge confirms
\* a crossing, whatever the order of the edges.
C2_OutsideEdgeIsSkipped ==
  InEdgeLoop =>
    /\ \A k \in ret.more :
         (EdgeOutside(this, ret.pix, k) /\ k < 3) => (k + 1) \in ret.more
    /\ ret.val = (\E k \in 0 .. 3 : EdgeConfirms(this, ret.pix, ret.given, k))

\* C2 amended: the first edge outside the cap ends the call with false and
\* no later edge is examined; the call returns true iff some edge k confirms
\* a crossing and no edge before k is outside the cap.
C2_OutsideEdgeEndsTheCall ==
  InEdgeLoop =>
    /\ \A k \in ret.more :
         EdgeOutside(this, ret.pix, k) =>
           /\ ret.val = FALSE
           /\ \A j \in 0 .. 3 : j > k => j \notin ret.more
    /\ ret.val =
         (\E k \in 0 .. 3 :
            /\ EdgeConfirms(this, ret.pix, ret.given, k)
            /\ \A j \in 0 .. k - 1 : ~ EdgeOutside(this, ret.pix, j))

\* An edge outside the cap ended the call although a later edge has
\* axis.edge <= 0 and is not outside the cap.
C2_Witness ==
  /\ InEdgeLoop
  /\ ret.given = Vertices(ret.pix)
  /\ \E k \in ret.more :
       /\ EdgeOutside(this, ret.pix, k)
       /\ \E j \in 0 .. 3 :
            /\ j > k
            /\ Dot(this.axis, Edge(ret.pix, j)) <= 0
            /\ ~ EdgeOutside(this, ret.pix, j)

\* ------------------------------------------------------------------------ C3

\* contained_area as C3 describes it, with the number of child pixels it
\* enters: exact_area if contains(pixel); else, if may_intersect(pixel), the
\* sum over the children; else 0.
RECURSIVE AreaByCases(_, _, _)
RECURSIVE SumOverChildren(_, _, _, _)

\* The sum of AreaByCases over kids[n], kids[n+1], ...
SumOverChildren(b, kids, mode, n) ==
  IF n > Len(kids)
    THEN [area |-> 0, entered |-> 0]
    ELSE LET one == AreaByCases(b, kids[n], mode)
             rest == SumOverChildren(b, kids, mode, n + 1)
         IN  [area |-> one.area + rest.area,
              entered |-> 1 + one.entered + rest.entered]

AreaByCases(b, pix, mode) ==
  LET oob == OutOfRangeVertex(pix, mode)
  IN  IF contains_pixel(b, pix, oob)
        THEN [area |-> ExactArea(pix), entered |-> 0]
      ELSE IF may_intersect(b, pix, oob)
        THEN SumOverChildren(b, Children(pix), mode, 1)
      ELSE [area |-> 0, entered |-> 0]

\* Pixels below a pixel of level 0.
PixelsBelowRoot == (Pow2(2 * MaxLevel + 2) - 1) \div 3 - 1

FrameAsDescribed(f) ==
  LET oob == OutOfRangeVertex(f.pix, f.mode)
      inside == contains_pixel(this, f.pix, oob)
      may == may_intersect(this, f.pix, oob)
      kids == Children(f.pix)
  IN  CASE f.phase = "entry" -> f.area = 0 /\ f.next = 1
        [] f.phase = "done" ->
             /\ inside \/ ~ may
             /\ f.next = 1
             /\ f.area = IF inside THEN ExactArea(f.pix) ELSE 0
        [] OTHER ->
             /\ ~ inside /\ may
             /\ f.next \in 1 .. Len(kids) + 1
             /\ f.area >= 0
             /\ f.area * 4 <= (f.next - 1) * ExactArea(f.pix)

\* Steps a call entered at a pixel of level l takes at most.
RECURSIVE Cost(_)
Cost(l) == IF l >= MaxLevel THEN 2 ELSE 2 + 4 * (1 + Cost(l + 1))

\* Steps frame i of the stack still has to take.
Remaining(i) ==
  LET f == stack[i]
      kids == Len(Children(f.pix))
      left == IF i = Len(stack) THEN kids - f.next + 1 ELSE kids - f.next
  IN  CASE f.phase = "entry" -> Cost(f.pix.level)
        [] f.phase = "done" -> 1
        [] OTHER -> left * (1 + Cost(f.pix.level + 1)) + 1

RECURSIVE RemainingFrom(_)
RemainingFrom(i) ==
  IF i > Len(stack) THEN 0 ELSE Remaining(i) + RemainingFrom(i + 1)

\* Steps the call in progress still has to take; 0 when none is.
Measure == RemainingFrom(1)

C3_State ==
  /\ Len(stack) <= MaxLevel + 1
  /\ descents <= PixelsBelowRoot
  /\ Measure >= 0
  /\ \A i \in 1 .. Len(stack) : FrameAsDescribed(stack[i])
  /\ \A i \in 2 .. Len(stack) :
       /\ stack[i - 1].phase = "loop"
       /\ stack[i].pix = Children(stack[i - 1].pix)[stack[i - 1].next]
  /\ call = "contained_area" =>
       /\ ret.val = AreaByCases(this, ret.pix, ret.given).area
       /\ ret.more = AreaByCases(this, ret.pix, ret.given).entered
       /\ ret.val >= 0
       /\ ret.val <= ExactArea(ret.pix)

\* C3: contained_area(pixel) terminates (its recursion is never deeper than
\* the hierarchy and every step of a call leaves it fewer steps to take) and
\* returns exact_area if contains(pixel), else the sum over the children if
\* may_intersect(pixel), else 0; it enters children only of pixels that are
\* not contained and may intersect; the result lies in [0, exact_area].
C3_ContainedAreaByCases ==
  /\ [] C3_State
  /\ [][~ Idle => Measure' < Measure]_vars

\* A call that went two levels down and found part of the pixel inside.
C3_Witness ==
  /\ call = "contained_area"
  /\ ret.more > 4
  /\ ret.val > 0
  /\ ret.val < ExactArea(ret.pix)

\* ------------------------------------------------------------------------ C4

\* C4: contains(pixel) is false if a vertex fails contains(point); if all
\* pass it is the negation of complement().may_intersect(pixel).  So a
\* contained pixel does not intersect the complement and has no vertex in
\* the complement.
C4_ContainedPixelMissesComplement ==
  call = "contains_pixel" =>
    /\ (\E k \in 0 .. 3 : ~ contains(this, Vertex(ret.pix, k))) =>
         ret.val = FALSE
    /\ (\A k \in 0 .. 3 : contains(this, Vertex(ret.pix, k))) =>
         ret.val = ~ may_intersect(complement(this), ret.pix, ret.given)
    /\ ret.val = TRUE =>
         /\ ~ intersects(complement(this), ret.pix, Vertices(ret.pix))
         /\ \A k \in 0 .. 3 : ~ contains(complement(this), Vertex(ret.pix, k))

\* ------------------------------------------------------------------------ C5

\* C5: over the draws made on one instance whose flag starts cleared,
\* initialize_random() runs exactly once, on the first draw, and on no later
\* draw.
C5_InitializeRandomRunsOnce ==
  (~ initialized_random_ /\ drawn >= 1) => seeded = 1

\* ------------------------------------------------------------------------ C6

\* C6: get_weighted_random_points(n, reference_points) leaves exactly n
\* points in the destination, each with the weight of some reference point.
C6_BatchWeightsComeFromReference ==
  call = "get_weighted_random_points" =>
    /\ Len(ret.val) = ret.more
    /\ \A i \in 1 .. Len(ret.val) :
         \E j \in 1 .. Len(ret.given) : ret.val[i].weight = ret.given[j]

\* ------------------------------------------------------------------------ C7

\* C7: on an empty bound is_empty() is true, area() and size() are 0,
\* contains(p), contains(pixel), may_intersect(pixel) and
\* intersects(pixel, vertices) are false, and contained_area(pixel) is 0 and
\* enters no child pixel.
C7_EmptyBoundDegrades ==
  is_empty(this) =>
    /\ descents = 0
    /\ call = "is_empty" => ret.val = TRUE
    /\ call = "area" => ret.val = 0
    /\ call = "size" => ret.val = 0
    /\ call \in { "contains", "contains_pixel", "may_intersect", "intersects" }
         => ret.val = FALSE
    /\ call = "contained_area" => ret.val = 0 /\ ret.more = 0

\* intersects() on an empty bound and a pixel that contains the axis.
C7_Witness ==
  /\ is_empty(this)
  /\ call = "intersects"
  /\ PixelContains(ret.pix, this.axis)

\* ------------------------------------------------------------------------ C8

\* 1 - axis.p = height
OnBoundary(b, p) ==
  LET x == One * Dot(b.axis, p)
      y == One - b.height
  IN  /\ x * x = y * y * Norm2(b.axis) * Norm2(p)
      /\ (x >= 0) = (y >= 0) \/ x = 0

Sound(b) == b.height >= 0 /\ b.height <= 2 * One

C8_State ==
  /\ call = "complement" =>
       /\ ret.val.axis = Neg(this.axis)
       /\ ret.val.height =
            IF this.height < 0 THEN 2 * One ELSE 2 * One - this.height
  /\ (call = "contains" /\ Sound(this)) =>
       /\ ret.val \/ contains(complement(this), ret.given)
       /\ (ret.val /\ contains(complement(this), ret.given))
            => OnBoundary(this, ret.given)

\* C8: complement() returns the bound of axis -axis and height 2 - height
\* (2 if the receiver is empty) and leaves the receiver as it was; a point is
\* in a non-empty bound of height in [0, 2] or in its complement, and in
\* both only on the boundary.
C8_ComplementCovers ==
  /\ [] C8_State
  /\ [][call' = "complement" => this' = this]_vars

\* A point on the boundary, which the bound and its complement both contain.
C8_Witness ==
  /\ call = "contains"
  /\ Sound(this)
  /\ this.height \notin { 0, 2 * One }
  /\ ret.val
  /\ contains(complement(this), ret.given)

\* ------------------------------------------------------------------------ C9

\* A non-empty bound has height in [0, 2] and area 2 PI height, an empty one
\* area 0; the area is in [0, 4 PI].
AreaInRange(b) ==
  /\ ~ is_empty(b) => Sound(b)
  /\ area(b) = IF is_empty(b) THEN 0 ELSE 2 * b.height
  /\ area(b) >= 0
  /\ area(b) <= 4 * One

Factories == { "circle_bound", "from_height", "from_radius", "from_angular_bin" }

\* C9 as stated: every bound the constructor, a factory or complement()
\* produces is AreaInRange, and so is the value area() returns.
C9_EveryBoundInRange ==
  /\ call \in Factories \cup { "complement" } => AreaInRange(ret.val)
  /\ call = "area" => ret.val = area(this) /\ AreaInRange(this)

\* C9 amended: the same for from_height when the height handed to it is at
\* most 2, and for complement() and area() on a bound so produced.
C9_BoundInRangeForHeightAtMostTwo ==
  /\ (call \in Factories /\ (call = "from_height" => ret.given <= 2 * One))
       => AreaInRange(ret.val)
  /\ (call = "complement" /\ this.height <= 2 * One) => AreaInRange(ret.val)
  /\ (call = "area" /\ this.height <= 2 * One)
       => ret.val = area(this) /\ AreaInRange(this)

\* from_height handed the height 2: the full sphere, of area 4 PI.
C9_Witness ==
  /\ call = "from_height"
  /\ ret.given = 2 * One
  /\ ~ is_empty(ret.val)
  /\ area(ret.val) = 4 * One

\* ----------------------------------------------------------------------- C10

\* C10: a bound of height 2 contains every pixel, and contained_area() of
\* it is the pixel's exact area with no child pixel entered.  Stated for the
\* calls in which the out-of-range vertex is not the antipode of the axis.
C10_FullSphereContainsEveryPixel ==
  (this.height = 2 * One /\ call \in { "contains_pixel", "contained_area" }) =>
    LET oob == IF call = "contains_pixel"
                 THEN ret.given
                 ELSE OutOfRangeVertex(ret.pix, ret.given)
    IN  ~ contains(complement(this), oob) =>
          /\ call = "contains_pixel" => ret.val = TRUE
          /\ call = "contained_area" =>
               ret.val = ExactArea(ret.pix) /\ ret.more = 0

====
